---- MODULE Spec2Model ----
(***************************************************************************)
(* Scatter-gather lists (sg_copy.c / sg_copy.h): sg_map builds a chain of  *)
(* descriptors for a buffer, sg_copy copies bytes between two chains.      *)
(* Memory is an array of bytes indexed by pointer value; descriptors live  *)
(* in a heap indexed by handle; NULL is the pointer 0.                     *)
(***************************************************************************)
EXTENDS Integers, Sequences, FiniteSets, TLC

VARIABLES
  mem,      \* memory: pointer value -> byte
  heap,     \* descriptor storage: handle -> [paddr, count, next]
  live,     \* handles handed out by malloc and not released
  head,     \* main's list `head` (the source list of the copy)
  dest,     \* main's list `dest`
  bufs,     \* the (buf, length) arguments main gave to each sg_map call
  pc,       \* position of the program
  cp,       \* arguments and locals of the running sg_copy call
  ret,      \* value returned by the last sg_copy call
  mem0,     \* memory as it was when sg_copy was called
  written,  \* pointers written by memcpy during the sg_copy call
  taken,    \* the branches of lines 190-220 the sg_copy call has taken
  next,     \* main's list `next`
  ds,       \* argument and locals of the running sg_destroy call
  nfree,    \* handle -> number of times it was passed to free
  uaf       \* whether a released descriptor has been read or written

vars == <<mem, heap, live, head, dest, bufs, pc, cp, ret, mem0, written,
          taken, next, ds, nfree, uaf>>

\* the state of sg_destroy and of main's third list
dvars == <<next, ds, nfree, uaf>>

----------------------------------------------------------------------------
(* Program constants.                                                      *)

PAGE_SIZE == 32

NULL == 0

(* Bounds of the model.                                                    *)

\* number of pages of the modelled address space (physaddr_t is one word)
PhysPages == 12

\* number of descriptors malloc can hand out
MaxEntries == 12

\* largest length given to sg_map when sg_map is checked on its own
MaxMapLen == 70

\* largest length of a buffer, offset and count given to sg_copy
MaxCopyLen == 36

\* largest length of the buffer of a list given to sg_destroy
MaxDestroyLen == 70

\* largest length of the two buffers of the round trip
MaxTripLen == 40

MemSize == PhysPages * PAGE_SIZE

Ptrs == 0 .. (MemSize - 1)

Handles == 1 .. MaxEntries

Min(a, b) == IF a <= b THEN a ELSE b

----------------------------------------------------------------------------
(* sg_copy.h: the address translator.  paddr ^ ~(PAGE_SIZE-1) keeps the    *)
(* low bits (the offset in the page) and complements every higher bit      *)
(* (the page number) within the word.                                      *)

xor_page_mask(v) ==
  (PhysPages - 1 - (v \div PAGE_SIZE)) * PAGE_SIZE + (v % PAGE_SIZE)

ptr_to_phys(p) == xor_page_mask(p)

phys_to_ptr(paddr) == xor_page_mask(paddr)

----------------------------------------------------------------------------
(* sg_copy.c: init_entry and sg_map.                                       *)

NoEntry == [paddr |-> 0, count |-> 0, next |-> NULL]

\* malloc hands out the lowest handle that is not live
malloc(lv) == CHOOSE h \in Handles \ lv : \A g \in Handles \ lv : h <= g

init_entry(hp, entry, paddr, c, next_entry) ==
  IF entry = NULL THEN hp
  ELSE [hp EXCEPT ![entry] = [paddr |-> paddr, count |-> c, next |-> next_entry]]

\* align_loop with the alignment walk left out
align_loop_skipped(buf, length, c) == 0

\* lines 53-56: bytes before the first PAGE_SIZE boundary
RECURSIVE align_loop(_, _, _)
align_loop(buf, length, c) ==
  IF (ptr_to_phys(buf + c) % PAGE_SIZE # 0) /\ (c < length)
  THEN align_loop(buf, length, c + 1)
  ELSE c

\* first_count without the PAGE_SIZE cap of an aligned buffer
first_count_uncapped(buf, length) ==
  LET c == align_loop(buf, length, 0)
  IN IF c = 0 THEN length ELSE c

\* lines 59-62
first_count(buf, length) ==
  LET c == align_loop(buf, length, 0)
  IN IF c = 0 THEN (IF length <= PAGE_SIZE THEN length ELSE PAGE_SIZE) ELSE c

\* next_paddr that adds the previous count to the previous address
next_paddr_accumulated(buf, paddr, count, total_count) == paddr + count

\* line 76: the address of the next entry, from the locals paddr and count
\* (still those of the previous entry), buf and total_count
next_paddr(buf, paddr, count, total_count) ==
  ptr_to_phys(buf + total_count)

\* next_count without the shorter last entry
next_count_full_page(remaining_length) == PAGE_SIZE

\* lines 77-78: the count of the next entry
next_count(remaining_length) ==
  IF remaining_length <= PAGE_SIZE THEN remaining_length ELSE PAGE_SIZE

\* lines 73-91
RECURSIVE map_loop(_, _, _, _, _, _)
map_loop(hp, lv, list_prev, buf, remaining_length, total_count) ==
  IF remaining_length > 0
  THEN LET paddr == next_paddr(buf, hp[list_prev].paddr, hp[list_prev].count,
                               total_count)
           c == next_count(remaining_length)
           list_curr == malloc(lv)
           hp1 == init_entry(hp, list_curr, paddr, c, NULL)
           hp2 == [hp1 EXCEPT ![list_prev].next = list_curr]
       IN map_loop(hp2, lv \cup {list_curr}, list_curr, buf,
                   remaining_length - c, total_count + c)
  ELSE [heap |-> hp, live |-> lv]

\* sg_map without the check of length
sg_map_unchecked_length(hp, lv, buf, length) ==
  IF buf = NULL THEN [heap |-> hp, live |-> lv, list |-> NULL]
  ELSE LET paddr == ptr_to_phys(buf)
           c == first_count(buf, length)
           list_head == malloc(lv)
           hp1 == init_entry(hp, list_head, paddr, c, NULL)
           r == map_loop(hp1, lv \cup {list_head}, list_head, buf,
                         length - c, c)
       IN [heap |-> r.heap, live |-> r.live, list |-> list_head]

\* lines 35-94: the heap and live set after the call, and the returned list
sg_map(hp, lv, buf, length) ==
  IF buf = NULL THEN [heap |-> hp, live |-> lv, list |-> NULL]
  ELSE IF length <= 0 THEN [heap |-> hp, live |-> lv, list |-> NULL]
  ELSE LET paddr == ptr_to_phys(buf)
           c == first_count(buf, length)
           list_head == malloc(lv)
           hp1 == init_entry(hp, list_head, paddr, c, NULL)
           r == map_loop(hp1, lv \cup {list_head}, list_head, buf,
                         length - c, c)
       IN [heap |-> r.heap, live |-> r.live, list |-> list_head]

----------------------------------------------------------------------------
(* Reading a chain.                                                        *)

\* the handles of the chain headed by h, in order (at most n of them)
RECURSIVE ChainN(_, _, _)
ChainN(hp, h, n) ==
  IF h = NULL \/ n = 0 THEN <<>>
  ELSE <<h>> \o ChainN(hp, hp[h].next, n - 1)

Chain(h) == ChainN(heap, h, MaxEntries)

RECURSIVE SumCounts(_, _)
SumCounts(hp, s) ==
  IF s = <<>> THEN 0 ELSE hp[Head(s)].count + SumCounts(hp, Tail(s))

Extent(h) == SumCounts(heap, Chain(h))

----------------------------------------------------------------------------
(* The state after construction, and main's sg_map calls.                  *)

NoCopy == [src |-> NULL, dest |-> NULL, src_offset |-> 0, count |-> 0,
           src_curr |-> NULL, dest_curr |-> NULL,
           bytes_copied |-> 0, bytes_skipped |-> 0,
           remaining_bytes_to_copy |-> 0,
           offset_in_src_entry |-> 0, offset_in_dest_entry |-> 0]

NoBuf == [buf |-> NULL, length |-> 0]

\* sg_destroy's argument, its local sg_list, and where main goes on after it
\* (chain, heap0 and live0 record the chain, the heap and the live set at
\* the call)
NoDestroy == [list |-> NULL, sg_list |-> NULL, after |-> "start",
              chain |-> <<>>, heap0 |-> <<>>, live0 |-> {}]

Init ==
  /\ mem = [p \in Ptrs |-> p % 256]
  /\ heap = [h \in Handles |-> NoEntry]
  /\ live = {}
  /\ head = NULL
  /\ dest = NULL
  /\ bufs = [head |-> NoBuf, next |-> NoBuf, dest |-> NoBuf]
  /\ pc = "start"
  /\ cp = NoCopy
  /\ ret = 0
  /\ mem0 = [p \in Ptrs |-> p % 256]
  /\ written = {}
  /\ taken = {}
  /\ next = NULL
  /\ ds = NoDestroy
  /\ nfree = [h \in Handles |-> 0]
  /\ uaf = FALSE

\* main line 233: head = sg_map(buf, length)
main_map_head(buf, length) ==
  /\ pc = "start"
  /\ LET r == sg_map(heap, live, buf, length)
     IN /\ heap' = r.heap
        /\ live' = r.live
        /\ head' = r.list
  /\ bufs' = [bufs EXCEPT !.head = [buf |-> buf, length |-> length]]
  /\ pc' = "head_mapped"
  /\ UNCHANGED <<mem, dest, cp, ret, mem0, written, taken>>
  /\ UNCHANGED dvars

\* main line 235: dest = sg_map(buf, length)
main_map_dest(buf, length) ==
  /\ pc \in {"head_mapped", "next_mapped"}
  /\ LET r == sg_map(heap, live, buf, length)
     IN /\ heap' = r.heap
        /\ live' = r.live
        /\ dest' = r.list
  /\ bufs' = [bufs EXCEPT !.dest = [buf |-> buf, length |-> length]]
  /\ pc' = "dest_mapped"
  /\ UNCHANGED <<mem, head, cp, ret, mem0, written, taken>>
  /\ UNCHANGED dvars

----------------------------------------------------------------------------
(* sg_copy.c: sg_copy.  sg_copy_call runs the function up to its walk      *)
(* (lines 139-166), sg_copy_step is one iteration of the walk (lines       *)
(* 168-221) and sg_copy_return leaves the loop and returns (line 223).     *)

\* memcpy that writes one byte more than it was asked to
memcpy_one_more(m, p_dest, p_src, n) ==
  [p \in Ptrs |-> IF p >= p_dest /\ p < p_dest + n + 1
                  THEN m[p_src + (p - p_dest)] ELSE m[p]]

\* memcpy(p_dest, p_src, n) on memory m
memcpy(m, p_dest, p_src, n) ==
  [p \in Ptrs |-> IF p >= p_dest /\ p < p_dest + n
                  THEN m[p_src + (p - p_dest)] ELSE m[p]]

\* invalid_args without the check of src_offset
invalid_args_offset_unchecked(d, src_offset, count) ==
  d = NULL \/ count <= 0

\* lines 148-150
invalid_args(d, src_offset, count) ==
  d = NULL \/ src_offset < 0 \/ count <= 0

\* skip_loop that stops on the last entry instead of running off the chain
RECURSIVE skip_loop_stops_at_last(_, _, _, _)
skip_loop_stops_at_last(hp, src_curr, bytes_skipped, src_offset) ==
  IF src_curr # NULL /\ hp[src_curr].next # NULL
     /\ (bytes_skipped + hp[src_curr].count) <= src_offset
  THEN skip_loop_stops_at_last(hp, hp[src_curr].next,
                               bytes_skipped + hp[src_curr].count, src_offset)
  ELSE [src_curr |-> src_curr, bytes_skipped |-> bytes_skipped]

\* skip_loop that does not add up the bytes it skips
RECURSIVE skip_loop_no_sum(_, _, _, _)
skip_loop_no_sum(hp, src_curr, bytes_skipped, src_offset) ==
  IF src_curr # NULL /\ (bytes_skipped + hp[src_curr].count) <= src_offset
  THEN skip_loop_no_sum(hp, hp[src_curr].next, bytes_skipped, src_offset)
  ELSE [src_curr |-> src_curr, bytes_skipped |-> bytes_skipped]

\* skip_loop that stays on an entry the offset only just runs past
RECURSIVE skip_loop_strict(_, _, _, _)
skip_loop_strict(hp, src_curr, bytes_skipped, src_offset) ==
  IF src_curr # NULL /\ (bytes_skipped + hp[src_curr].count) < src_offset
  THEN skip_loop_strict(hp, hp[src_curr].next,
                        bytes_skipped + hp[src_curr].count, src_offset)
  ELSE [src_curr |-> src_curr, bytes_skipped |-> bytes_skipped]

\* lines 153-157: skip the entries before the offset
RECURSIVE skip_loop(_, _, _, _)
skip_loop(hp, src_curr, bytes_skipped, src_offset) ==
  IF src_curr # NULL /\ (bytes_skipped + hp[src_curr].count) <= src_offset
  THEN skip_loop(hp, hp[src_curr].next,
                 bytes_skipped + hp[src_curr].count, src_offset)
  ELSE [src_curr |-> src_curr, bytes_skipped |-> bytes_skipped]

\* start_offset that starts at the beginning of the entry
start_offset_zero(src_offset, bytes_skipped) == 0

\* line 165
start_offset(src_offset, bytes_skipped) == src_offset - bytes_skipped

\* bytes_to_copy that ignores the bytes still asked for
bytes_to_copy_whole_entry(remaining_bytes_to_copy, remaining_bytes_in_entry) ==
  remaining_bytes_in_entry

\* lines 181-183 and 186-188
bytes_to_copy(remaining_bytes_to_copy, remaining_bytes_in_entry) ==
  IF remaining_bytes_to_copy <= remaining_bytes_in_entry
  THEN remaining_bytes_to_copy ELSE remaining_bytes_in_entry

\* lines 139-166
sg_copy_call(src, d, src_offset, count) ==
  /\ mem0' = mem
  /\ written' = {}
  /\ taken' = {}
  /\ IF invalid_args(d, src_offset, count)
     THEN /\ cp' = [NoCopy EXCEPT !.src = src, !.dest = d,
                                  !.src_offset = src_offset, !.count = count,
                                  !.src_curr = src, !.dest_curr = d,
                                  !.remaining_bytes_to_copy = count]
          /\ ret' = 0
          /\ pc' = "copied"
     ELSE LET s == skip_loop(heap, src, 0, src_offset)
          IN /\ cp' = [src |-> src, dest |-> d,
                       src_offset |-> src_offset, count |-> count,
                       src_curr |-> s.src_curr, dest_curr |-> d,
                       bytes_copied |-> 0, bytes_skipped |-> s.bytes_skipped,
                       remaining_bytes_to_copy |-> count,
                       offset_in_src_entry |->
                         IF s.src_curr = NULL THEN 0
                         ELSE start_offset(src_offset, s.bytes_skipped),
                       offset_in_dest_entry |-> 0]
             /\ IF s.src_curr = NULL
                THEN ret' = 0 /\ pc' = "copied"
                ELSE ret' = ret /\ pc' = "walk"
  /\ UNCHANGED <<mem, heap, live, head, dest, bufs>>
  /\ UNCHANGED dvars

\* advance_branch that takes the source branch on equal remainders
advance_branch_tie_as_src(remaining_bytes_in_src_entry, remaining_bytes_in_dest_entry) ==
  IF remaining_bytes_in_src_entry <= remaining_bytes_in_dest_entry
  THEN "src" ELSE "dest"

\* lines 190, 200 and 210: which of the three branches an iteration takes
advance_branch(remaining_bytes_in_src_entry, remaining_bytes_in_dest_entry) ==
  IF remaining_bytes_in_src_entry < remaining_bytes_in_dest_entry
  THEN "src"
  ELSE IF remaining_bytes_in_src_entry > remaining_bytes_in_dest_entry
  THEN "dest"
  ELSE "both"

\* line 168, and the two breaks of lines 177-178
walk_continues ==
  /\ cp.remaining_bytes_to_copy > 0
  /\ cp.dest_curr # NULL
  /\ cp.src_curr # NULL
  /\ heap[cp.src_curr].count > 0
  /\ heap[cp.dest_curr].count > 0

\* lines 170-220: one iteration of the walk
sg_copy_step ==
  /\ pc = "walk"
  /\ walk_continues
  /\ LET p_src == phys_to_ptr(heap[cp.src_curr].paddr) + cp.offset_in_src_entry
         p_dest == phys_to_ptr(heap[cp.dest_curr].paddr) + cp.offset_in_dest_entry
         remaining_bytes_in_src_entry ==
           heap[cp.src_curr].count - cp.offset_in_src_entry
         bytes_to_copy_from_src_entry ==
           bytes_to_copy(cp.remaining_bytes_to_copy, remaining_bytes_in_src_entry)
         remaining_bytes_in_dest_entry ==
           heap[cp.dest_curr].count - cp.offset_in_dest_entry
         bytes_to_copy_to_dest_entry ==
           bytes_to_copy(cp.remaining_bytes_to_copy, remaining_bytes_in_dest_entry)
         branch == advance_branch(remaining_bytes_in_src_entry,
                                  remaining_bytes_in_dest_entry)
     IN IF branch = "src"
        THEN /\ taken' = taken \cup {"src"}
             /\ mem' = memcpy(mem, p_dest, p_src, bytes_to_copy_from_src_entry)
             /\ written' = written \cup
                  (p_dest .. (p_dest + bytes_to_copy_from_src_entry - 1))
             /\ cp' = [cp EXCEPT
                  !.src_curr = heap[cp.src_curr].next,
                  !.offset_in_src_entry = 0,
                  !.offset_in_dest_entry = @ + bytes_to_copy_from_src_entry,
                  !.remaining_bytes_to_copy = @ - bytes_to_copy_from_src_entry,
                  !.bytes_copied = @ + bytes_to_copy_from_src_entry]
        ELSE IF branch = "dest"
        THEN /\ taken' = taken \cup {"dest"}
             /\ mem' = memcpy(mem, p_dest, p_src, bytes_to_copy_to_dest_entry)
             /\ written' = written \cup
                  (p_dest .. (p_dest + bytes_to_copy_to_dest_entry - 1))
             /\ cp' = [cp EXCEPT
                  !.dest_curr = heap[cp.dest_curr].next,
                  !.offset_in_src_entry = @ + bytes_to_copy_to_dest_entry,
                  !.offset_in_dest_entry = 0,
                  !.remaining_bytes_to_copy = @ - bytes_to_copy_to_dest_entry,
                  !.bytes_copied = @ + bytes_to_copy_to_dest_entry]
        ELSE /\ taken' = taken \cup {"both"}
             /\ mem' = memcpy(mem, p_dest, p_src, bytes_to_copy_from_src_entry)
             /\ written' = written \cup
                  (p_dest .. (p_dest + bytes_to_copy_from_src_entry - 1))
             /\ cp' = [cp EXCEPT
                  !.src_curr = heap[cp.src_curr].next,
                  !.dest_curr = heap[cp.dest_curr].next,
                  !.offset_in_src_entry = 0,
                  !.offset_in_dest_entry = 0,
                  !.remaining_bytes_to_copy = @ - bytes_to_copy_from_src_entry,
                  !.bytes_copied = @ + bytes_to_copy_from_src_entry]
  /\ UNCHANGED <<heap, live, head, dest, bufs, pc, ret, mem0>>
  /\ UNCHANGED dvars

\* line 223, reached when the loop condition fails or a break is taken
sg_copy_return ==
  /\ pc = "walk"
  /\ ~walk_continues
  /\ ret' = cp.bytes_copied
  /\ pc' = "copied"
  /\ UNCHANGED <<mem, heap, live, head, dest, bufs, cp, mem0, written, taken>>
  /\ UNCHANGED dvars

\* main line 240: sg_copy(head, dest, src_offset, count)
main_copy(src_offset, count) ==
  /\ pc \in {"dest_mapped", "linked"}
  /\ sg_copy_call(head, dest, src_offset, count)

----------------------------------------------------------------------------
(* sg_copy.c: sg_destroy.  sg_destroy_call enters the function,            *)
(* sg_destroy_step is one iteration of its loop (lines 105-118) and        *)
(* sg_destroy_return leaves it.  free leaves the contents of a descriptor  *)
(* indeterminate: a later read of it finds the old contents or zeroes.     *)

\* what a read of descriptor e can find
ReadEntry(e) == IF e \in live THEN {heap[e]} ELSE {heap[e], NoEntry}

\* must_sever that cuts every link
must_sever_always(c, nxt, nxt_count) == TRUE

\* must_sever that does not look at the following descriptor
must_sever_self_only(c, nxt, nxt_count) == c <= 0

\* lines 110-111
must_sever(c, nxt, nxt_count) == c <= 0 \/ (nxt # NULL /\ nxt_count <= 0)

\* line 101
sg_destroy_call(sg_list, after) ==
  /\ ds' = [list |-> sg_list, sg_list |-> sg_list, after |-> after,
            chain |-> Chain(sg_list), heap0 |-> heap, live0 |-> live]
  /\ pc' = "destroy"
  /\ UNCHANGED <<mem, heap, live, head, dest, bufs, cp, ret, mem0, written,
                 taken, next, nfree, uaf>>

\* the program does not go on after a descriptor was released twice
NoDoubleFree == \A h \in Handles : nfree[h] <= 1

\* lines 105-118: one iteration of the loop
sg_destroy_step ==
  /\ pc = "destroy"
  /\ ds.sg_list # NULL
  /\ NoDoubleFree
  /\ \E cur \in ReadEntry(ds.sg_list) :
       \E nxt \in (IF cur.next = NULL THEN {NoEntry} ELSE ReadEntry(cur.next)) :
         LET sever == must_sever(cur.count, cur.next, nxt.count)
             next_sg_entry_t == IF sever THEN NULL ELSE cur.next
         IN /\ heap' = [heap EXCEPT ![ds.sg_list] =
                                      [cur EXCEPT !.next = next_sg_entry_t]]
            /\ live' = live \ {ds.sg_list}
            /\ nfree' = [nfree EXCEPT ![ds.sg_list] = @ + 1]
            /\ uaf' = (\/ uaf
                       \/ ds.sg_list \notin live
                       \/ (cur.count > 0 /\ cur.next # NULL /\ cur.next \notin live))
            /\ ds' = [ds EXCEPT !.sg_list = next_sg_entry_t]
  /\ UNCHANGED <<mem, head, dest, bufs, pc, cp, ret, mem0, written, taken, next>>

\* line 105 with sg_list == NULL, and line 119
sg_destroy_return ==
  /\ pc = "destroy"
  /\ ds.sg_list = NULL
  /\ pc' = ds.after
  /\ UNCHANGED <<mem, heap, live, head, dest, bufs, cp, ret, mem0, written,
                 taken, next, ds, nfree, uaf>>

\* a caller (re)initialises a descriptor of list h with init_entry, giving it
\* the count c and the next link nxt
caller_init_entry(e, c, nxt, after) ==
  /\ heap' = init_entry(heap, e, heap[e].paddr, c, nxt)
  /\ pc' = after
  /\ UNCHANGED <<mem, live, head, dest, bufs, cp, ret, mem0, written, taken>>
  /\ UNCHANGED dvars

\* main line 234: next = sg_map(buf, length)
main_map_next(buf, length) ==
  /\ pc = "head_mapped"
  /\ LET r == sg_map(heap, live, buf, length)
     IN /\ heap' = r.heap
        /\ live' = r.live
        /\ next' = r.list
  /\ bufs' = [bufs EXCEPT !.next = [buf |-> buf, length |-> length]]
  /\ pc' = "next_mapped"
  /\ UNCHANGED <<mem, head, dest, cp, ret, mem0, written, taken, ds, nfree, uaf>>

\* main line 237: sg_destroy(head->next)
main_destroy_tail ==
  /\ pc = "dest_mapped"
  /\ head # NULL
  /\ sg_destroy_call(heap[head].next, "tail_destroyed")

\* main line 238: head->next = next
main_link ==
  /\ pc = "tail_destroyed"
  /\ heap' = [heap EXCEPT ![head].next = next]
  /\ pc' = "linked"
  /\ UNCHANGED <<mem, live, head, dest, bufs, cp, ret, mem0, written, taken>>
  /\ UNCHANGED dvars

\* main line 242: sg_destroy(next)
main_destroy_next ==
  /\ pc = "copied"
  /\ sg_destroy_call(next, "next_destroyed")

\* main line 243: sg_destroy(head)
main_destroy_head ==
  /\ pc = "next_destroyed"
  /\ sg_destroy_call(head, "head_destroyed")

\* main line 244: sg_destroy(dest)
main_destroy_dest ==
  /\ pc = "head_destroyed"
  /\ sg_destroy_call(dest, "done")

----------------------------------------------------------------------------
(* sg_map on its own: every alignment in a page, NULL, and every length    *)
(* from -1 to MaxMapLen.                                                   *)

MapBase == PAGE_SIZE

MapBufs == {NULL} \cup (MapBase .. (MapBase + PAGE_SIZE - 1))

MapLens == (-1) .. MaxMapLen

MapCall == \E buf \in MapBufs, length \in MapLens : main_map_head(buf, length)

MapNext == MapCall

SpecMap == Init /\ [][MapNext]_vars

----------------------------------------------------------------------------
(* sg_copy between two mapped buffers: main maps a source buffer and a     *)
(* destination buffer that do not overlap, then copies.                    *)

HeadBase == 2 * PAGE_SIZE

DestBase == 5 * PAGE_SIZE

CopyHeadAligns == {0, PAGE_SIZE - 2}

CopyDestAligns == {5, PAGE_SIZE - 2}

CopyLens == {0, 3, PAGE_SIZE + 2, MaxCopyLen}

CopyOffsets == ((-1) .. 3) \cup ((PAGE_SIZE - 1) .. (MaxCopyLen + 1))

CopyCounts == (0 .. 3) \cup ((PAGE_SIZE - 2) .. (MaxCopyLen + 1))

CopyMapHead ==
  \E a \in CopyHeadAligns, length \in CopyLens : main_map_head(HeadBase + a, length)

CopyMapDest ==
  \E b \in CopyDestAligns, length \in CopyLens : main_map_dest(DestBase + b, length)

CopyCall ==
  \E src_offset \in CopyOffsets, count \in CopyCounts :
    main_copy(src_offset, count)

CopyNext ==
  \/ CopyMapHead
  \/ CopyMapDest
  \/ CopyCall
  \/ sg_copy_step
  \/ sg_copy_return

SpecCopy == Init /\ [][CopyNext]_vars

\* sg_copy runs to completion: an iteration or the return that can be taken
\* is taken
SpecCopyLive ==
  SpecCopy /\ WF_vars(sg_copy_step) /\ WF_vars(sg_copy_return)

----------------------------------------------------------------------------
(* The round trip: two buffers of the same length, each at any alignment   *)
(* in its page, mapped and copied in full.                                 *)

TripAligns == 0 .. (PAGE_SIZE - 1)

TripLens == {1, PAGE_SIZE - 1, PAGE_SIZE, PAGE_SIZE + 1, MaxTripLen}

TripMapHead ==
  \E a \in TripAligns, length \in TripLens : main_map_head(HeadBase + a, length)

TripMapDest ==
  \E b \in TripAligns : main_map_dest(DestBase + b, bufs.head.length)

TripCall == main_copy(0, bufs.head.length)

TripNext ==
  \/ TripMapHead
  \/ TripMapDest
  \/ TripCall
  \/ sg_copy_step
  \/ sg_copy_return

SpecTrip == Init /\ [][TripNext]_vars

----------------------------------------------------------------------------
(* sg_destroy on its own: main maps head and dest, may give one descriptor *)
(* of head another count and one another next link, and destroys head.     *)

DestroyAligns == {0, PAGE_SIZE - 2}

DestroyLens == {0, 3, PAGE_SIZE + 2, MaxDestroyLen}

DestroyMapHead ==
  \E a \in DestroyAligns, length \in DestroyLens :
    main_map_head(HeadBase + a, length)

DestroyMapDest == main_map_dest(DestBase + 5, PAGE_SIZE + 2)

\* the descriptors of the chain headed by h
Entries(h) == {Chain(h)[i] : i \in 1 .. Len(Chain(h))}

DestroySetCount ==
  /\ pc = "dest_mapped"
  /\ \E e \in Entries(head), c \in {-1, 0} :
       caller_init_entry(e, c, heap[e].next, "count_set")

DestroySetNext ==
  /\ pc \in {"dest_mapped", "count_set"}
  /\ \E e \in Entries(head), nxt \in Entries(head) :
       caller_init_entry(e, heap[e].count, nxt, "next_set")

DestroyCall ==
  /\ pc \in {"dest_mapped", "count_set", "next_set"}
  /\ sg_destroy_call(head, "destroyed")

DestroyNext ==
  \/ DestroyMapHead
  \/ DestroyMapDest
  \/ DestroySetCount
  \/ DestroySetNext
  \/ DestroyCall
  \/ sg_destroy_step
  \/ sg_destroy_return

SpecDestroy == Init /\ [][DestroyNext]_vars

----------------------------------------------------------------------------
(* main as written: the three arrays var, var2 and var3 of int lie apart,  *)
(* each at some multiple of sizeof(int) in its page; the lengths, the      *)
(* offset and the count are those of lines 233-240.                        *)

sizeof_int == 4

VarBase == PAGE_SIZE

Var2Base == 5 * PAGE_SIZE

Var3Base == 8 * PAGE_SIZE

IntAligns == {a \in 0 .. (PAGE_SIZE - 1) : a % sizeof_int = 0}

MainMapHead == \E a \in IntAligns : main_map_head(VarBase + a, 74)

MainMapNext == \E a \in IntAligns : main_map_next(Var2Base + a, 68)

MainMapDest ==
  /\ pc = "next_mapped"
  /\ \E a \in IntAligns : main_map_dest(Var3Base + a, 96)

MainCopy ==
  /\ pc = "linked"
  /\ main_copy(6, 115)

MainNext ==
  \/ MainMapHead
  \/ MainMapNext
  \/ MainMapDest
  \/ main_destroy_tail
  \/ main_link
  \/ MainCopy
  \/ sg_copy_step
  \/ sg_copy_return
  \/ main_destroy_next
  \/ main_destroy_head
  \/ main_destroy_dest
  \/ sg_destroy_step
  \/ sg_destroy_return

SpecMain == Init /\ [][MainNext]_vars

----------------------------------------------------------------------------
(* sg_copy on lists in which a caller has given one descriptor, of either  *)
(* list, a count of 0 or -1 after mapping.                                 *)

SentinelLens == {PAGE_SIZE + 2, PAGE_SIZE + 4}

SentinelOffsets == 0 .. 3

SentinelCounts == {1, 3, PAGE_SIZE + 4}

SentinelMapHead ==
  \E length \in SentinelLens : main_map_head(HeadBase + PAGE_SIZE - 2, length)

SentinelMapDest == main_map_dest(DestBase + 5, PAGE_SIZE + 4)

SentinelSetCount ==
  /\ pc = "dest_mapped"
  /\ \E e \in Entries(head) \cup Entries(dest), c \in {-1, 0} :
       caller_init_entry(e, c, heap[e].next, "count_set")

SentinelCall ==
  /\ pc \in {"dest_mapped", "count_set"}
  /\ \E src_offset \in SentinelOffsets, count \in SentinelCounts :
       sg_copy_call(head, dest, src_offset, count)

SentinelNext ==
  \/ SentinelMapHead
  \/ SentinelMapDest
  \/ SentinelSetCount
  \/ SentinelCall
  \/ sg_copy_step
  \/ sg_copy_return

SpecSentinel == Init /\ [][SentinelNext]_vars

----------------------------------------------------------------------------
(* Lists of any granularity: a caller builds a list from short buffers as  *)
(* main does in lines 234 and 238, mapping each buffer and attaching the   *)
(* list it gets as the tail of the list built so far.                      *)

MaxPieces == 3

GranSrcLens == {5, 7, 20}

GranDestLens == {10, 12}

\* next = sg_map(buf, length); last->next = next
append_mapped(list, buf, length) ==
  LET r == sg_map(heap, live, buf, length)
      c == Chain(list)
  IN IF list = NULL THEN r
     ELSE [heap |-> [r.heap EXCEPT ![c[Len(c)]].next = r.list],
           live |-> r.live,
           list |-> list]

GranAppendSrc ==
  /\ pc \in {"start", "src_built"}
  /\ Len(Chain(head)) < MaxPieces
  /\ \E length \in GranSrcLens :
       LET r == append_mapped(head,
                              (1 + Len(Chain(head))) * PAGE_SIZE + 12, length)
       IN /\ heap' = r.heap
          /\ live' = r.live
          /\ head' = r.list
  /\ pc' = "src_built"
  /\ UNCHANGED <<mem, dest, bufs, cp, ret, mem0, written, taken>>
  /\ UNCHANGED dvars

GranAppendDest ==
  /\ pc \in {"src_built", "dest_built"}
  /\ Len(Chain(dest)) < MaxPieces
  /\ \E length \in GranDestLens :
       LET r == append_mapped(dest,
                              (2 + MaxPieces + Len(Chain(dest))) * PAGE_SIZE,
                              length)
       IN /\ heap' = r.heap
          /\ live' = r.live
          /\ dest' = r.list
  /\ pc' = "dest_built"
  /\ UNCHANGED <<mem, head, bufs, cp, ret, mem0, written, taken>>
  /\ UNCHANGED dvars

GranCopy ==
  /\ pc = "dest_built"
  /\ \E count \in {16, 32} : sg_copy_call(head, dest, 0, count)

GranNext ==
  \/ GranAppendSrc
  \/ GranAppendDest
  \/ GranCopy
  \/ sg_copy_step
  \/ sg_copy_return

SpecGran == Init /\ [][GranNext]_vars

----------------------------------------------------------------------------
(* Properties of the lists sg_map returns.                                 *)

\* the lists main holds once their sg_map call has returned, with the
\* arguments of the call
Mapped ==
  (IF pc # "start" THEN {[list |-> head, arg |-> bufs.head]} ELSE {})
  \cup (IF pc \notin {"start", "head_mapped", "next_mapped"}
        THEN {[list |-> dest, arg |-> bufs.dest]} ELSE {})

ValidArg(a) == a.buf # NULL /\ a.length > 0

\* C1 (coverage): for a non-null buffer and a length > 0, sg_map returns a
\* non-empty chain, every descriptor of it has count >= 1, and the counts
\* sum to exactly length.
C1_Coverage ==
  \A m \in Mapped :
    ValidArg(m.arg) =>
      /\ m.list # NULL
      /\ heap[Chain(m.list)[Len(Chain(m.list))]].next = NULL
      /\ \A e \in Entries(m.list) : heap[e].count >= 1
      /\ Extent(m.list) = m.arg.length

\* an unaligned buffer longer than two pages: a short first descriptor,
\* full pages, and a shorter last one
C1_Witness ==
  /\ pc = "head_mapped"
  /\ bufs.head.buf % PAGE_SIZE = 5
  /\ bufs.head.length = 2 * PAGE_SIZE + 1
  /\ Len(Chain(head)) = 3
  /\ heap[Chain(head)[3]].count = PAGE_SIZE + 1 - (PAGE_SIZE - 5)

\* C2 (alignment): in a list returned by sg_map every descriptor but the
\* first has paddr % PAGE_SIZE = 0, and no descriptor has count greater
\* than PAGE_SIZE.
C2_Alignment ==
  \A m \in Mapped :
    /\ \A i \in 2 .. Len(Chain(m.list)) :
         heap[Chain(m.list)[i]].paddr % PAGE_SIZE = 0
    /\ \A e \in Entries(m.list) : heap[e].count <= PAGE_SIZE

\* an aligned buffer longer than a page: the first count is capped at
\* PAGE_SIZE and a second, aligned descriptor follows
C2_Witness ==
  /\ pc = "head_mapped"
  /\ bufs.head.buf % PAGE_SIZE = 0
  /\ bufs.head.length > PAGE_SIZE
  /\ head # NULL
  /\ heap[head].count = PAGE_SIZE
  /\ Len(Chain(head)) >= 2

\* C3 (no page crossing): for every descriptor of a list returned by sg_map,
\* the first one included, (paddr % PAGE_SIZE) + count <= PAGE_SIZE.
C3_NoPageCrossing ==
  \A m \in Mapped :
    \A e \in Entries(m.list) :
      (heap[e].paddr % PAGE_SIZE) + heap[e].count <= PAGE_SIZE

\* an unaligned buffer that runs past the end of its first page
C3_Witness ==
  /\ pc = "head_mapped"
  /\ bufs.head.buf % PAGE_SIZE = PAGE_SIZE - 3
  /\ bufs.head.length = 10
  /\ head # NULL
  /\ heap[head].count = 3
  /\ Len(Chain(head)) = 2

\* C9 (invalid map input): sg_map returns NULL and allocates no descriptor
\* when buf is NULL or length <= 0.
C9_InvalidMapInput ==
  /\ (pc = "head_mapped" /\ ~ValidArg(bufs.head)) =>
       (head = NULL /\ live = {} /\ heap = [h \in Handles |-> NoEntry])
  /\ (pc = "dest_mapped" /\ ~ValidArg(bufs.dest)) =>
       (dest = NULL /\ live = Entries(head))

\* sg_map was called with a non-null buffer and a negative length
C9_Witness ==
  /\ pc = "head_mapped"
  /\ bufs.head.buf # NULL
  /\ bufs.head.length < 0
  /\ head = NULL


----------------------------------------------------------------------------
(* Properties of sg_copy.                                                  *)

\* the pointers of the bytes of the logical extent of the chain s, in
\* order: byte number i of a descriptor is the byte at physical address
\* paddr + i
RECURSIVE PtrSeq(_, _)
PtrSeq(hp, s) ==
  IF s = <<>> THEN <<>>
  ELSE [i \in 1 .. hp[Head(s)].count |-> phys_to_ptr(hp[Head(s)].paddr + i - 1)]
       \o PtrSeq(hp, Tail(s))

\* LogicalPtrs(h)[i + 1] is the pointer of the byte at logical position i
LogicalPtrs(h) == PtrSeq(heap, Chain(h))

Range(f) == {f[x] : x \in DOMAIN f}

PositiveCounts(h) == \A e \in Entries(h) : heap[e].count > 0

\* every descriptor has a positive count and stays within one page
WellFormed(h) ==
  \A e \in Entries(h) :
    /\ heap[e].count > 0
    /\ (heap[e].paddr % PAGE_SIZE) + heap[e].count <= PAGE_SIZE

ValidCopyArgs == cp.dest # NULL /\ cp.src_offset >= 0 /\ cp.count > 0

\* C4 (copy result value): with dest non-empty, k >= 0, n > 0, k smaller
\* than src's extent and positive counts everywhere, sg_copy returns
\* min(n, src_extent - k, dest_extent); so 0 <= result <= n and the result
\* does not exceed the capacity of dest.
C4_CopyResult ==
  (/\ pc = "copied"
   /\ ValidCopyArgs
   /\ cp.src_offset < Extent(cp.src)
   /\ PositiveCounts(cp.src)
   /\ PositiveCounts(cp.dest))
  => /\ ret = Min(cp.count, Min(Extent(cp.src) - cp.src_offset, Extent(cp.dest)))
     /\ 0 <= ret
     /\ ret <= cp.count
     /\ ret <= Extent(cp.dest)

\* a copy cut short by the destination: dest is smaller than both the
\* count and what src still holds after the offset
C4_Witness ==
  /\ pc = "copied"
  /\ ValidCopyArgs
  /\ cp.src_offset > 0
  /\ Len(Chain(cp.dest)) >= 2
  /\ Extent(cp.dest) < cp.count
  /\ Extent(cp.dest) < Extent(cp.src) - cp.src_offset
  /\ PositiveCounts(cp.src)
  /\ PositiveCounts(cp.dest)
  /\ ret = Extent(cp.dest)

\* C5 (offset correctness): when sg_copy(src, dest, k, n) returns r on
\* well-formed chains over memory that does not overlap, byte i of dest's
\* extent equals what byte k + i of src's extent was before the call, for
\* every i in [0, r), and no byte outside the first r bytes of dest's extent
\* is written.
C5_OffsetCorrect ==
  LET sp == LogicalPtrs(cp.src)
      dp == LogicalPtrs(cp.dest)
      copied == {dp[i] : i \in 1 .. ret}
  IN (/\ pc = "copied"
      /\ WellFormed(cp.src)
      /\ WellFormed(cp.dest)
      /\ Range(sp) \cap Range(dp) = {})
     => /\ ret <= Len(dp)
        /\ ret > 0 => (cp.src_offset >= 0 /\ cp.src_offset + ret <= Len(sp))
        /\ \A i \in 1 .. ret : mem[dp[i]] = mem0[sp[cp.src_offset + i]]
        /\ written \subseteq copied
        /\ \A p \in Ptrs \ copied : mem[p] = mem0[p]

\* a copy that starts in the middle of the first src descriptor and runs
\* into the following descriptors of both chains
C5_Witness ==
  /\ pc = "copied"
  /\ cp.src # NULL
  /\ cp.dest # NULL
  /\ cp.src_offset > 0
  /\ cp.src_offset < heap[cp.src].count
  /\ ret > heap[cp.src].count - cp.src_offset
  /\ ret > heap[cp.dest].count
  /\ heap[cp.src].count - cp.src_offset # heap[cp.dest].count
  /\ WellFormed(cp.src)
  /\ WellFormed(cp.dest)
  /\ Range(LogicalPtrs(cp.src)) \cap Range(LogicalPtrs(cp.dest)) = {}

\* a copy that starts exactly on the boundary between two src descriptors
C5_WitnessBoundary ==
  /\ pc = "copied"
  /\ cp.src # NULL
  /\ cp.src_offset = heap[cp.src].count
  /\ ret > 1

\* a copy that starts at offset 0
C5_WitnessZero ==
  /\ pc = "copied"
  /\ cp.src_offset = 0
  /\ ret > PAGE_SIZE

\* C6 as stated (truncation): with valid arguments and k inside src, when
\* k + n exceeds src's extent sg_copy returns fewer than n bytes, exactly
\* extent - k.
C6_TruncationAsStated ==
  (/\ pc = "copied"
   /\ ValidCopyArgs
   /\ cp.src_offset < Extent(cp.src)
   /\ cp.src_offset + cp.count > Extent(cp.src))
  => /\ ret < cp.count
     /\ ret = Extent(cp.src) - cp.src_offset

\* C6 as amended: with dest non-empty, n > 0, 0 <= k <= extent of src,
\* k + n > extent and a dest whose extent is at least extent - k, sg_copy
\* returns fewer than n bytes, exactly extent - k.
C6_Truncation ==
  (/\ pc = "copied"
   /\ ValidCopyArgs
   /\ cp.src_offset <= Extent(cp.src)
   /\ cp.src_offset + cp.count > Extent(cp.src)
   /\ Extent(cp.dest) >= Extent(cp.src) - cp.src_offset)
  => /\ ret < cp.count
     /\ ret = Extent(cp.src) - cp.src_offset

\* src runs out before the count is reached, with room left in dest
C6_Witness ==
  /\ pc = "copied"
  /\ ValidCopyArgs
  /\ cp.src_offset > 0
  /\ cp.src_offset < Extent(cp.src)
  /\ cp.src_offset + cp.count > Extent(cp.src)
  /\ Extent(cp.dest) > Extent(cp.src) - cp.src_offset
  /\ Len(Chain(cp.src)) >= 2
  /\ ret = Extent(cp.src) - cp.src_offset

\* the heap as the two sg_map calls of main left it
HeapAsMapped ==
  LET h == sg_map([x \in Handles |-> NoEntry], {}, bufs.head.buf, bufs.head.length)
      d == sg_map(h.heap, h.live, bufs.dest.buf, bufs.dest.length)
  IN heap = d.heap /\ live = d.live /\ head = h.list /\ dest = d.list

\* C7 (rejection of invalid input): sg_copy returns 0 when dest is NULL,
\* src_offset < 0 or count <= 0; it then writes no byte and changes no
\* descriptor.
C7_InvalidCopyInput ==
  (/\ pc = "copied"
   /\ (cp.dest = NULL \/ cp.src_offset < 0 \/ cp.count <= 0))
  => /\ ret = 0
     /\ written = {}
     /\ mem = mem0
     /\ HeapAsMapped

\* a negative offset into a source that could serve the copy
C7_Witness ==
  /\ pc = "copied"
  /\ cp.src_offset < 0
  /\ cp.count > 0
  /\ cp.src # NULL
  /\ cp.dest # NULL
  /\ ret = 0

\* C8 (offset past the end): with otherwise valid arguments sg_copy returns
\* 0 and writes no memory when src is empty or src_offset is at least the
\* sum of the counts of src.
C8_OffsetPastEnd ==
  (/\ pc = "copied"
   /\ ValidCopyArgs
   /\ (cp.src = NULL \/ cp.src_offset >= Extent(cp.src)))
  => /\ ret = 0
     /\ written = {}
     /\ mem = mem0

\* an offset beyond the end of a source of several descriptors
C8_Witness ==
  /\ pc = "copied"
  /\ ValidCopyArgs
  /\ Len(Chain(cp.src)) >= 2
  /\ cp.src_offset > Extent(cp.src)
  /\ ret = 0

\* C10 (round trip): for two disjoint buffers of the same length L >= 1 at
\* any alignments, sg_copy(sg_map(A, L), sg_map(B, L), 0, L) returns L and
\* the L bytes of B then equal the L bytes of A.
C10_RoundTrip ==
  (/\ pc = "copied"
   /\ bufs.head.buf # NULL
   /\ bufs.dest.buf # NULL
   /\ bufs.head.length >= 1
   /\ bufs.dest.length = bufs.head.length
   /\ cp.src = head
   /\ cp.dest = dest
   /\ cp.src_offset = 0
   /\ cp.count = bufs.head.length)
  => /\ ret = bufs.head.length
     /\ \A i \in 0 .. (bufs.head.length - 1) :
          mem[bufs.dest.buf + i] = mem0[bufs.head.buf + i]

\* two buffers at different alignments, each mapped to three descriptors
C10_Witness ==
  /\ pc = "copied"
  /\ bufs.head.length = bufs.dest.length
  /\ bufs.head.buf % PAGE_SIZE # bufs.dest.buf % PAGE_SIZE
  /\ bufs.head.buf % PAGE_SIZE # 0
  /\ bufs.dest.buf % PAGE_SIZE # 0
  /\ Len(Chain(head)) = 3
  /\ Len(Chain(dest)) = 3
  /\ ret = bufs.head.length


----------------------------------------------------------------------------
(* Properties of sg_destroy.  ds.chain, ds.heap0 and ds.live0 are the      *)
(* chain, the heap and the live set as they were at the call.              *)

\* the chain given to sg_destroy ended in NULL and repeated no descriptor
Acyclic0 ==
  /\ \A i, j \in 1 .. Len(ds.chain) : ds.chain[i] = ds.chain[j] => i = j
  /\ ds.chain # <<>> => ds.heap0[ds.chain[Len(ds.chain)]].next = NULL

AllPositive0 == \A i \in 1 .. Len(ds.chain) : ds.heap0[ds.chain[i]].count > 0

\* descriptor number i of the chain was non-positive, or its successor was
StopsAt0(i) ==
  LET e == ds.heap0[ds.chain[i]]
  IN e.count <= 0 \/ (e.next # NULL /\ ds.heap0[e.next].count <= 0)

HasStop0 == \E i \in 1 .. Len(ds.chain) : StopsAt0(i)

FirstStop0 ==
  CHOOSE i \in 1 .. Len(ds.chain) :
    StopsAt0(i) /\ \A j \in 1 .. (i - 1) : ~StopsAt0(j)

Released == {h \in Handles : nfree[h] >= 1}

\* C11 (destroy releases everything once): for an acyclic chain of positive
\* counts sg_destroy releases every descriptor of the chain exactly once and
\* no other descriptor; for the empty list it releases nothing.
C11_DestroyReleasesAll ==
  (pc = "destroyed" /\ Acyclic0 /\ AllPositive0)
  => /\ \A h \in Handles :
          nfree[h] = (IF h \in Range(ds.chain) THEN 1 ELSE 0)
     /\ live = ds.live0 \ Range(ds.chain)
     /\ ~uaf

\* a chain of four descriptors was destroyed next to a list that stays live
C11_Witness ==
  /\ pc = "destroyed"
  /\ Acyclic0
  /\ AllPositive0
  /\ Len(ds.chain) = 4
  /\ Released = Range(ds.chain)
  /\ dest # NULL
  /\ Entries(dest) \subseteq live

\* the empty list was destroyed
C11_WitnessEmpty ==
  /\ pc = "destroyed"
  /\ ds.list = NULL
  /\ Released = {}

\* C14 (destroy severs at a non-positive length): sg_destroy cuts the next
\* link of the first descriptor that is non-positive or whose successor is
\* non-positive, releases exactly the descriptors up to and including that
\* one, each once, and none after it.
C14_DestroySevers ==
  (pc = "destroyed" /\ (HasStop0 \/ Acyclic0))
  => LET last == IF HasStop0 THEN FirstStop0 ELSE Len(ds.chain)
     IN /\ Released = {ds.chain[i] : i \in 1 .. last}
        /\ \A h \in Released : nfree[h] = 1
        /\ HasStop0 => heap[ds.chain[last]].next = NULL
        /\ live = ds.live0 \ Released
        /\ ~uaf

\* the third of four descriptors is non-positive: the walk stops on the
\* second, whose link it cuts, and the last two are not released
C14_Witness ==
  /\ pc = "destroyed"
  /\ Len(ds.chain) = 4
  /\ ds.heap0[ds.chain[3]].count <= 0
  /\ ds.heap0[ds.chain[1]].count > 0
  /\ ds.heap0[ds.chain[2]].count > 0
  /\ ds.heap0[ds.chain[2]].next = ds.chain[3]
  /\ heap[ds.chain[2]].next = NULL
  /\ Released = {ds.chain[1], ds.chain[2]}

\* C16 (defence against cycles): sg_destroy on a chain of positive counts
\* whose next links form a cycle releases each descriptor at most once and
\* reads no descriptor it has released.
C16_CycleDefended ==
  (pc \in {"destroy", "destroyed"} /\ ~Acyclic0 /\ AllPositive0)
  => /\ ~uaf
     /\ \A h \in Handles : nfree[h] <= 1

\* C15 (no use after release in the driver sequence): in main's sequence
\* of calls no descriptor is released twice, sg_destroy reads no descriptor
\* that an earlier sg_destroy released, and sg_copy walks live descriptors.
C15_NoUseAfterRelease ==
  /\ ~uaf
  /\ \A h \in Handles : nfree[h] <= 1
  /\ pc = "walk" => Entries(cp.src) \cup Entries(cp.dest) \subseteq live

----------------------------------------------------------------------------
(* The steps of sg_copy's walk.  In a step the unprimed cp is the cursor   *)
(* pair at the start of the iteration and the primed cp the pair after it. *)

\* a transition that is one iteration of the walk
WalkStep == pc = "walk" /\ pc' = "walk" /\ cp' # cp

src_avail == heap[cp.src_curr].count - cp.offset_in_src_entry

dest_avail == heap[cp.dest_curr].count - cp.offset_in_dest_entry

chunk == Min(cp.remaining_bytes_to_copy, Min(src_avail, dest_avail))

SrcMoved ==
  /\ cp'.src_curr = heap[cp.src_curr].next
  /\ cp'.offset_in_src_entry = 0

SrcKept ==
  /\ cp'.src_curr = cp.src_curr
  /\ cp'.offset_in_src_entry = cp.offset_in_src_entry + chunk

DestMoved ==
  /\ cp'.dest_curr = heap[cp.dest_curr].next
  /\ cp'.offset_in_dest_entry = 0

DestKept ==
  /\ cp'.dest_curr = cp.dest_curr
  /\ cp'.offset_in_dest_entry = cp.offset_in_dest_entry + chunk

\* C12 as stated (tie-break/advance rule): in every step of the walk the
\* source cursor moves to the next descriptor exactly when chunk = src_avail
\* and the destination cursor exactly when chunk = dest_avail; a side that
\* does not move has chunk added to its intra-offset.
C12_AdvanceAsStated ==
  [][WalkStep =>
       /\ IF chunk = src_avail THEN SrcMoved ELSE SrcKept
       /\ IF chunk = dest_avail THEN DestMoved ELSE DestKept]_vars

\* C12 (tie-break/advance rule): every step of the walk transfers chunk
\* bytes; the source cursor moves exactly when src_avail <= dest_avail and
\* the destination cursor exactly when dest_avail <= src_avail, which is the
\* stated rule in every step whose remaining count is at least the smaller
\* of the two; a side that does not move has chunk added to its intra-offset.
C12_Advance ==
  [][WalkStep =>
       /\ cp'.bytes_copied = cp.bytes_copied + chunk
       /\ cp'.remaining_bytes_to_copy = cp.remaining_bytes_to_copy - chunk
       /\ IF src_avail <= dest_avail THEN SrcMoved ELSE SrcKept
       /\ IF dest_avail <= src_avail THEN DestMoved ELSE DestKept
       /\ cp.remaining_bytes_to_copy >= Min(src_avail, dest_avail)
          => /\ IF chunk = src_avail THEN SrcMoved ELSE SrcKept
             /\ IF chunk = dest_avail THEN DestMoved ELSE DestKept]_vars

\* a walk that has moved the source cursor alone, the destination cursor
\* alone, and both in one step
C12_Witness ==
  /\ pc = "walk"
  /\ taken = {"src", "dest", "both"}

\* the descriptors of the chain headed by h that a cursor now at cur has
\* left behind by following their next links
Passed(h, cur) ==
  {Chain(h)[j] : j \in {i \in 1 .. Len(Chain(h)) :
                          \A m \in 1 .. i : Chain(h)[m] # cur}}

\* C13 (non-positive length is a terminator in copy): neither cursor of
\* sg_copy, in the locate-the-start phase or in the walk, ever follows the
\* next link of a descriptor whose count is <= 0, and no byte is written
\* when the first descriptor of either list is such a descriptor.
C13_SentinelTerminates ==
  pc \in {"walk", "copied"}
  => /\ \A e \in Passed(cp.src, cp.src_curr) : heap[e].count > 0
     /\ \A e \in Passed(cp.dest, cp.dest_curr) : heap[e].count > 0
     /\ (cp.src # NULL /\ heap[cp.src].count <= 0) => written = {}

\* a transition made by sg_copy: its entry, an iteration, or its return
CopyTransition == pc \in {"dest_mapped", "walk"} /\ pc' \in {"walk", "copied"}

\* C17 (copy is read-only on the lists): no transition of sg_copy changes
\* the paddr, count or next of a descriptor, allocates a descriptor or
\* releases one, and the only memory bytes it changes are bytes described
\* by dest.
C17_CopyFrame ==
  [][CopyTransition =>
       /\ heap' = heap
       /\ live' = live
       /\ nfree' = nfree
       /\ head' = head
       /\ dest' = dest
       /\ \A p \in Ptrs \ Range(LogicalPtrs(dest)) : mem'[p] = mem[p]]_vars

\* a copy over several descriptors has returned, having changed memory and
\* left the lists as sg_map made them
C17_Witness ==
  /\ pc = "copied"
  /\ ret > PAGE_SIZE
  /\ mem # mem0
  /\ Len(Chain(cp.src)) >= 2
  /\ Len(Chain(cp.dest)) >= 2
  /\ HeapAsMapped

RECURSIVE CountsBefore(_, _)
\* the sum of the counts of the descriptors before number i of chain c
CountsBefore(c, i) ==
  IF i <= 1 THEN 0 ELSE CountsBefore(c, i - 1) + heap[c[i - 1]].count

\* C18 (address recomputation in map): in the list sg_map(buf, length)
\* returns, the paddr of each descriptor is ptr_to_phys of buf plus the sum
\* of the counts of the descriptors before it (ptr_to_phys(buf) for the
\* first), and is not the previous descriptor's paddr plus its count.
C18_AddressRecomputed ==
  (pc = "head_mapped" /\ head # NULL)
  => LET c == Chain(head)
     IN \A i \in 1 .. Len(c) :
          /\ heap[c[i]].paddr = ptr_to_phys(bufs.head.buf + CountsBefore(c, i))
          /\ i > 1 => heap[c[i]].paddr
                        # heap[c[i - 1]].paddr + heap[c[i - 1]].count

\* a buffer that starts inside a page was mapped to three descriptors
C18_Witness ==
  /\ pc = "head_mapped"
  /\ head # NULL
  /\ bufs.head.buf % PAGE_SIZE # 0
  /\ Len(Chain(head)) = 3
  /\ heap[Chain(head)[3]].paddr
       = ptr_to_phys(bufs.head.buf + heap[Chain(head)[1]].count
                       + heap[Chain(head)[2]].count)

\* an iteration of the walk is about to run: the loop condition of line 168
\* holds and neither break of lines 177-178 is taken
IterationStarts ==
  /\ pc = "walk"
  /\ cp.remaining_bytes_to_copy > 0
  /\ cp.src_curr # NULL
  /\ cp.dest_curr # NULL
  /\ heap[cp.src_curr].count > 0
  /\ heap[cp.dest_curr].count > 0

\* C20 (copy makes progress and terminates): at the start of every
\* iteration of the walk both intra-offsets lie within their descriptors,
\* every iteration transfers at least one byte and lowers remaining, every
\* walk returns, and a walk on mapped lists ends with remaining = 0, the
\* source exhausted or the destination exhausted.
C20_Progress ==
  /\ [](IterationStarts
        => /\ 0 <= cp.offset_in_src_entry
           /\ cp.offset_in_src_entry < heap[cp.src_curr].count
           /\ 0 <= cp.offset_in_dest_entry
           /\ cp.offset_in_dest_entry < heap[cp.dest_curr].count)
  /\ [][WalkStep
        => /\ cp'.bytes_copied >= cp.bytes_copied + 1
           /\ cp'.remaining_bytes_to_copy < cp.remaining_bytes_to_copy]_vars
  /\ (pc = "walk") ~> (pc = "copied")
  /\ []((pc = "copied" /\ ValidCopyArgs)
        => \/ cp.remaining_bytes_to_copy = 0
           \/ cp.src_curr = NULL
           \/ cp.dest_curr = NULL)

\* an iteration is about to start in the middle of a source descriptor,
\* after bytes have been copied
C20_Witness ==
  /\ IterationStarts
  /\ cp.bytes_copied > 0
  /\ cp.offset_in_src_entry > 0
  /\ cp.offset_in_dest_entry = 0

\* the counts of the descriptors of the chain headed by h, in order
Counts(h) == [i \in 1 .. Len(Chain(h)) |-> heap[Chain(h)[i]].count]

GranCase ==
  /\ pc = "copied"
  /\ Counts(cp.src) = <<5, 20, 7>>
  /\ Counts(cp.dest) = <<10, 10, 12>>
  /\ cp.src_offset = 0
  /\ cp.count = 32

\* C19 (mismatched granularity): sg_copy of 32 bytes from offset 0 of a
\* source with counts 5, 20, 7 into a destination with counts 10, 10, 12
\* returns 32, leaves the 32 logical bytes of the destination equal to those
\* of the source, and takes each of its three branches.
C19_Mismatched ==
  GranCase
  => /\ ret = 32
     /\ Len(LogicalPtrs(cp.src)) = 32
     /\ Len(LogicalPtrs(cp.dest)) = 32
     /\ \A i \in 1 .. 32 :
          mem[LogicalPtrs(cp.dest)[i]] = mem0[LogicalPtrs(cp.src)[i]]
     /\ \A p \in Ptrs \ Range(LogicalPtrs(cp.dest)) : mem[p] = mem0[p]
     /\ taken = {"src", "dest", "both"}

\* the copy between the two lists has returned, its last step a tie
C19_Witness ==
  /\ GranCase
  /\ ret = 32
  /\ "both" \in taken
  /\ cp.src_curr = NULL
  /\ cp.dest_curr = NULL

====
